---- MODULE Spec2Model ----
(***************************************************************************)
(* A model of the kimi-ai gateway of src/main.ts: the nonce cache of       *)
(* KimiAIProvider (getNonce / fetchNonce), its session cache with one-shot *)
(* expiry timers (getOrCreateSession), and the completion handler          *)
(* chatCompletion with makeRequest's attempt / retry flow and the          *)
(* pseudo-streaming emitter.                                               *)
(*                                                                         *)
(* Scheduling is that of the JavaScript event loop: a handler runs without *)
(* interruption up to its next suspension on I/O or on a timer, and the    *)
(* continuations of the requests that await one promise run one after the  *)
(* other, in the order they attached, as soon as that promise settles.     *)
(* Each action of the model is therefore one event-loop turn: the arrival  *)
(* of a request, the completion of a token page fetch, the completion of   *)
(* an upstream POST, the end of an inter-chunk delay, an expiry timer, or  *)
(* the passing of time.                                                    *)
(***************************************************************************)
EXTENDS Integers, Sequences, FiniteSets, TLC

(***************************************************************************)
(* Bounds of the model.                                                    *)
(***************************************************************************)
\* Completion requests that open a stream (request slots, in arrival order).
NumRequests == 2
\* settings.SESSION_CACHE_TTL, in clock ticks.
SESSION_CACHE_TTL == 2

\* The longest history buildContextualPrompt is called on, on its own.
MaxHistory == 2

Requests == 1..NumRequests

(***************************************************************************)
(* Inputs.                                                                 *)
(***************************************************************************)
\* settings.DEFAULT_MODEL and the two models preparePayload knows.
DEFAULT_MODEL == "kimi-k2-instruct-0905"
KnownModels == {"kimi-k2-instruct-0905", "kimi-k2-instruct"}

\* The "model" field of a request body: absent, or a string.
NoModel == "<absent>"
ModelInputs == {NoModel, "gpt-4"}

\* The "user" field of a request body: absent (or empty), or a user key.
NoUser == ""
Users == {"u1"}
UserInputs == {NoUser} \cup Users
\* The keys the session cache can hold: those of Users, and one more user.
OtherUsers == {"u2"}
UserKeys == Users \cup OtherUsers

\* Message contents and upstream response texts are sequences of characters.
Contents == {<<"a">>, <<"b">>}
Texts == {<<>>, <<"x", "y">>}

Msg(role, content) == [role |-> role, content |-> content]

\* The "messages" field of a request body: missing, not a list, or a list.
List(items) == [kind |-> "list", items |-> items]
ValidLists == {<<Msg("user", c)>> : c \in Contents}
InvalidLists ==
    {<<>>, <<Msg("assistant", <<"a">>)>>,
     <<Msg("user", <<"a">>), Msg("system", <<"b">>)>>}
MessagesInputs ==
    {[kind |-> "missing", items |-> <<>>], [kind |-> "notList", items |-> <<>>]}
    \cup {List(l) : l \in ValidLists \cup InvalidLists}

\* settings.API_MASTER_KEY (line 18), as configured for the runs.
API_MASTER_KEY == <<"s", "k">>

\* The Authorization header of a request: absent (headers.get gives null), or
\* a string.
NoHeader == [present |-> FALSE, value |-> <<>>]
Header(value) == [present |-> TRUE, value |-> value]
Bearer(token) == Header(<<"B", "e", "a", "r", "e", "r", " ">> \o token)

\* The header of a client that holds the key.
KeyHeader == Bearer(API_MASTER_KEY)

\* The request bodies of the stateless runs: any messages field, no user.
StatelessInputs ==
    [messages : {List(<<Msg("user", <<"a">>)>>)}, user : {NoUser},
     model : ModelInputs, authorization : {KeyHeader}]
    \cup [messages : MessagesInputs \ {List(l) : l \in ValidLists},
          user : {NoUser}, model : {NoModel}, authorization : {KeyHeader}]

\* The request bodies of the session runs: valid messages, a user key.
StatefulInputs ==
    [messages : {List(l) : l \in ValidLists}, user : Users, model : {NoModel},
     authorization : {KeyHeader}]

\* The request bodies of a client that sends its user key with every request,
\* well-formed or not.
ValidationInputs ==
    [messages : {[kind |-> "missing", items |-> <<>>], List(<<>>),
                 List(<<Msg("assistant", <<"a">>)>>),
                 List(<<Msg("user", <<"a">>)>>)},
     user : Users, model : {NoModel}, authorization : {KeyHeader}]

\* The request bodies of the runs with several clients: one without a user
\* key, and two users who each send a message of their own.
MultiUserInputs ==
    {[messages |-> List(<<Msg("user", <<"a">>)>>), user |-> NoUser,
      model |-> NoModel, authorization |-> KeyHeader],
     [messages |-> List(<<Msg("user", <<"a">>)>>), user |-> "u1",
      model |-> NoModel, authorization |-> KeyHeader],
     [messages |-> List(<<Msg("user", <<"b">>)>>), user |-> "u2",
      model |-> NoModel, authorization |-> KeyHeader]}

\* The requests of the runs with clients that may not hold the key: any of
\* these headers, on any of these routes, with the body of a stateful request.
HeaderInputs ==
    {NoHeader, Header(<<>>), KeyHeader,
     Header(<<"B", "a", "s", "i", "c", " ", "s", "k">>),
     Header(<<"b", "e", "a", "r", "e", "r", " ", "s", "k">>),
     Bearer(<<"x", "x">>), Bearer(<<"S", "K">>)}
RouteInputs ==
    {[path |-> "/v1/chat/completions", method |-> "POST"],
     [path |-> "/v1/models", method |-> "GET"],
     [path |-> "/", method |-> "GET"],
     [path |-> "/v1/other", method |-> "GET"]}
ServeInputs ==
    {[messages |-> List(<<Msg("user", <<"a">>)>>), user |-> "u1",
      model |-> NoModel, authorization |-> h, path |-> rt.path,
      method |-> rt.method] : h \in HeaderInputs, rt \in RouteInputs}

\* The arguments of buildContextualPrompt when it is called on its own: the
\* histories of up to MaxHistory turns over these contents, and a new message.
PromptContents ==
    {<<"2", "+", "2", "?">>, <<"4">>, <<"3", "+", "3", "?">>,
     <<"h", "i", "\n">>}
NewMessages == PromptContents \cup {<<>>}
PromptTurns == {Msg(role, c) : role \in {"user", "assistant"},
                              c \in PromptContents}
Histories == UNION {[1..n -> PromptTurns] : n \in 0..MaxHistory}

\* What an upstream POST can come back with (makeRequest, lines 222-237).
PostFailures == {"http_error", "logical_failure"}
\* The shapes of a success=true response without data.message: data is an
\* object with no message, data is a plain string, data is absent or null.
NoMessageKinds == {"no_message", "string_data", "no_data"}
PostOutcomes ==
    {[kind |-> "message", text |-> t] : t \in Texts}
    \cup {[kind |-> "no_message", text |-> <<>>]}
    \cup {[kind |-> "string_data", text |-> <<"x", "y">>]}
    \cup {[kind |-> "no_data", text |-> <<>>]}
    \cup {[kind |-> k, text |-> <<>>] : k \in PostFailures}

\* What a token page fetch can come back with (fetchNonce, lines 73-104).
FetchFailures == {"http_error", "no_nonce"}
FetchOutcomes == {"nonce"} \cup FetchFailures

VARIABLES
    noncePromise,   \* this.noncePromise: 0 (null) or the fetch it was made from
    nonce,          \* this.nonce: 0 (null) or the fetch whose nonce is stored
    fetches,        \* every token page fetch started so far, in order
    sessionCache,   \* this.sessionCache: user key -> session object (0: no entry)
    sessions,       \* every session object created so far (the heap)
    timers,         \* the pending expiry timers
    minted,         \* how many conversation ids were minted so far
    req,            \* the requests that opened a stream
    lastResponse,   \* the last response that was not a stream
    probe           \* a call of buildContextualPrompt on its own (PromptSpec)

vars == <<noncePromise, nonce, fetches, sessionCache, sessions, timers, minted,
          req, lastResponse, probe>>

(***************************************************************************)
(* SSE records (createChatCompletionChunk, DONE_CHUNK).  The "created"     *)
(* timestamp of a chunk is left out.                                       *)
(***************************************************************************)
NullFinish == "null"

createChatCompletionChunk(requestId, model, content, finishReason) ==
    [kind |-> "chunk", id |-> requestId, model |-> model,
     content |-> content, finish_reason |-> finishReason]

DONE_CHUNK ==
    [kind |-> "done", id |-> 0, model |-> "", content |-> "",
     finish_reason |-> ""]

ErrorText == "Upstream request still failed after retry"

\* requestId = `chatcmpl-${crypto.randomUUID()}`: one per request.
RequestId(r) == r

(***************************************************************************)
(* Prompt compilation (buildContextualPrompt).  Strings are sequences of   *)
(* characters, so that join and trim are computed, not assumed.            *)
(***************************************************************************)
UserLabel == <<"U", "s", "e", "r">>
ModelLabel == <<"M", "o", "d", "e", "l">>
Newline == "\n"
Whitespace == {" ", "\t", "\n", "\r"}

RECURSIVE TrimStart(_)
TrimStart(s) ==
    IF s # <<>> /\ Head(s) \in Whitespace THEN TrimStart(Tail(s)) ELSE s

RECURSIVE TrimEnd(_)
TrimEnd(s) ==
    IF s # <<>> /\ s[Len(s)] \in Whitespace
    THEN TrimEnd(SubSeq(s, 1, Len(s) - 1))
    ELSE s

Trim(s) == TrimEnd(TrimStart(s))

RECURSIVE Join(_, _)
Join(lines, sep) ==
    IF lines = <<>> THEN <<>>
    ELSE IF Len(lines) = 1 THEN lines[1]
    ELSE lines[1] \o <<sep>> \o Join(Tail(lines), sep)

\* A rendering that labels every turn as the user's.
AlwaysUserLabel(role) == UserLabel

RoleLabel(role) == IF role = "user" THEN UserLabel ELSE ModelLabel

HistoryLine(msg) == RoleLabel(msg.role) \o <<":", " ">> \o msg.content

buildContextualPrompt(history, newMessage) ==
    LET historyLines == [i \in 1..Len(history) |-> HistoryLine(history[i])]
    IN  Trim(Join(historyLines \o <<UserLabel \o <<":", " ">> \o newMessage>>,
                  Newline))

(***************************************************************************)
(* The upstream payload (preparePayload).                                  *)
(***************************************************************************)
ModelSupported(model) == model \in KnownModels

UpstreamModel(model) ==
    IF model = "kimi-k2-instruct-0905" THEN "moonshotai/Kimi-K2-Instruct-0905"
    ELSE "moonshotai/Kimi-K2-Instruct"

\* A payload that carries another conversation id than the one it is given.
PayloadOfNextSession(prompt, model, sessionId, n) ==
    [action |-> "kimi_send_message", nonce |-> n, message |-> prompt,
     model |-> UpstreamModel(model), session_id |-> sessionId + 1]

preparePayload(prompt, model, sessionId, n) ==
    [action |-> "kimi_send_message", nonce |-> n, message |-> prompt,
     model |-> UpstreamModel(model), session_id |-> sessionId]

(***************************************************************************)
(* The nonce cache (getNonce) and makeRequest.  These operators work on    *)
(* st = [np, nonce, fetches, req]: the nonce promise, the stored nonce,    *)
(* the fetches and the requests, and return st after the code has run to   *)
(* its next suspension.  A fetch's nonce is named by the fetch.            *)
(***************************************************************************)
\* A getNonce that never reuses the promise it holds.
AlwaysFetch(np, forceRefresh) == TRUE

\* A getNonce that fetches only when it holds no promise.
FetchIfNone(np, forceRefresh) == np = 0

\* getNonce, line 107: when a new page fetch is started.
ShouldFetch(np, forceRefresh) == np = 0 \/ forceRefresh

NewFetch(forceRefresh, r) ==
    [status |-> "pending", forced |-> forceRefresh, by |-> r,
     waiters |-> IF r = 0 THEN <<>> ELSE <<r>>]

\* getNonce(forceRefresh) called by request r, which then awaits the promise.
getNonce(st, r, forceRefresh) ==
    IF ShouldFetch(st.np, forceRefresh)
    THEN LET id == Len(st.fetches) + 1
         IN  [st EXCEPT !.fetches = Append(@, NewFetch(forceRefresh, r)),
                        !.np = id,
                        !.req[r].awaiting = id,
                        !.req[r].acquired = Append(@, id)]
    ELSE [st EXCEPT !.fetches[st.np].waiters =
                        IF st.fetches[st.np].status = "pending"
                        THEN Append(@, r) ELSE @,
                    !.req[r].awaiting = st.np,
                    !.req[r].acquired = Append(@, st.np)]

\* A catch block that never retries.
NeverRetry(isRetry) == FALSE

\* A catch block that retries whatever the attempt.
AlwaysRetry(isRetry) == TRUE

\* makeRequest's catch block, line 240: whether the failure is retried.
ShouldRetry(isRetry) == ~isRetry

\* A terminal failure that leaves the stream open after the error chunk.
FailWithoutClose(st, r) ==
    [st EXCEPT !.req[r].pc = "done",
               !.req[r].out = @ \o
                   <<createChatCompletionChunk(RequestId(r), st.req[r].model,
                                               ErrorText, "stop")>>]

\* A terminal failure that closes the stream without a word.
FailSilently(st, r) ==
    [st EXCEPT !.req[r].pc = "done", !.req[r].closed = TRUE]

\* chatCompletion, lines 250-256: makeRequest returned null.
Fail(st, r) ==
    [st EXCEPT !.req[r].pc = "done",
               !.req[r].out = @ \o
                   <<createChatCompletionChunk(RequestId(r), st.req[r].model,
                                               ErrorText, "stop"),
                     DONE_CHUNK>>,
               !.req[r].closed = TRUE]

RECURSIVE makeRequest(_, _, _)
RECURSIVE Catch(_, _, _)
RECURSIVE AfterNonce(_, _)

\* makeRequest(isRetry), lines 215-217, up to the await of the nonce promise,
\* and on if that promise is already settled.
makeRequest(st, r, isRetry) ==
    LET s1 == getNonce([st EXCEPT !.req[r].isRetry = isRetry,
                                  !.req[r].attempts = @ + 1],
                       r, isRetry)
        f == s1.req[r].awaiting
    IN  CASE s1.fetches[f].status = "pending" ->
                [s1 EXCEPT !.req[r].pc = "awaitNonce"]
          [] s1.fetches[f].status = "ok" -> AfterNonce(s1, r)
          [] OTHER -> Catch(s1, r, "nonce")

\* A makeRequest that compiles the prompt anew from the history as it is when
\* the nonce arrives.
AfterNonceRecompiled(st, r) ==
    LET q == st.req[r]
        prompt == IF q.sessionRef \in 1..Len(sessions)
                  THEN buildContextualPrompt(sessions[q.sessionRef].messages,
                                             q.msg.content)
                  ELSE q.prompt
    IN  IF ModelSupported(q.model)
        THEN [st EXCEPT !.req[r].pc = "awaitPost",
                        !.req[r].awaiting = 0,
                        !.req[r].posts = Append(@,
                            preparePayload(prompt, q.model, q.kimiSessionId,
                                           q.awaiting))]
        ELSE Catch(st, r, "payload")

\* makeRequest, lines 218-229: the nonce arrived; the payload is prepared and
\* the POST is sent, unless preparePayload throws.
AfterNonce(st, r) ==
    LET q == st.req[r]
    IN  IF ModelSupported(q.model)
        THEN [st EXCEPT !.req[r].pc = "awaitPost",
                        !.req[r].awaiting = 0,
                        !.req[r].posts = Append(@,
                            preparePayload(q.prompt, q.model, q.kimiSessionId,
                                           q.awaiting))]
        ELSE Catch(st, r, "payload")

\* makeRequest, lines 238-245: the catch block.  errors records what was
\* caught: the nonce promise rejected ("nonce"), preparePayload threw
\* ("payload"), or the POST failed ("post").
Catch(st, r, why) ==
    LET s1 == [st EXCEPT !.req[r].awaiting = 0,
                         !.req[r].errors = Append(@, why)]
    IN  IF ShouldRetry(st.req[r].isRetry)
        THEN makeRequest(s1, r, TRUE)
        ELSE Fail(s1, r)

\* Waiters that are dropped when their promise settles.
DropWaiters(ws, st, ok) == st

\* The requests awaiting a promise resume in the order they attached.
RECURSIVE Drain(_, _, _)
Drain(ws, st, ok) ==
    IF ws = <<>> THEN st
    ELSE Drain(Tail(ws),
               IF ok THEN AfterNonce(st, Head(ws))
               ELSE Catch(st, Head(ws), "nonce"),
               ok)

\* A catch handler that leaves the promise where it is.
PromiseKept(np, f) == np

\* getNonce's catch handler, line 112: the nonce promise after a fetch failed.
PromiseAfterFailure(np, f) == 0

(***************************************************************************)
(* The session cache (getOrCreateSession).                                 *)
(***************************************************************************)
\* A session object: kimi_session_id and messages are its fields in the code;
\* key and age record who it was made for and how long ago, and turns counts
\* the turns that succeeded for its key while it was the key's entry.
NewSession(userKey, id) ==
    [kimi_session_id |-> id, messages |-> <<>>, key |-> userKey, age |-> 0,
     turns |-> 0]

\* A timer whose callback deletes the entry of another key.
TimerForOtherKey(userKey) ==
    [key |-> CHOOSE u \in UserKeys : u # userKey, left |-> SESSION_CACHE_TTL]

\* A timer that is due one tick early.
ShortTimer(userKey) == [key |-> userKey, left |-> SESSION_CACHE_TTL - 1]

\* The timer of lines 133-136: its callback deletes the entry of userKey; left
\* is the time until it fires.
NewTimer(userKey) == [key |-> userKey, left |-> SESSION_CACHE_TTL]

\* getOrCreateSession, line 120: the entry is returned as it is.
CacheHit(userKey) == sessionCache[userKey] # 0

\* A lookup that starts the lifetime of the entry afresh.
TimersRestarted(userKey) ==
    {t \in timers : t.key # userKey} \cup {NewTimer(userKey)}

\* The timers after getOrCreateSession(userKey) found an entry (none is set).
TimersOnHit(userKey) == timers

(***************************************************************************)
(* The state after construction: the constructor has called getNonce(), so *)
(* the first page fetch is in flight and the nonce promise points at it.   *)
(***************************************************************************)
IdleRequest ==
    [pc |-> "idle", authorization |-> NoHeader, user |-> NoUser,
     model |-> NoModel,
     msg |-> Msg("", <<>>), sessionRef |-> 0, prompt |-> <<>>,
     kimiSessionId |-> 0, isRetry |-> FALSE, attempts |-> 0, awaiting |-> 0,
     acquired |-> <<>>, posts |-> <<>>, text |-> <<>>, idx |-> 0,
     out |-> <<>>, closed |-> FALSE, succeeded |-> FALSE, errors |-> <<>>]

\* A response that is not a stream: its status and body, and the "messages"
\* field of the request it answers.
NoMessages == [kind |-> "missing", items |-> <<>>]
NoResponse == [status |-> 0, body |-> "", messages |-> NoMessages]

\* No call of buildContextualPrompt on its own.
NoProbe == [history |-> <<>>, newMessage |-> <<>>, prompt |-> <<>>,
            compiled |-> FALSE]

Init ==
    /\ noncePromise = 1
    /\ nonce = 0
    /\ fetches = <<NewFetch(FALSE, 0)>>
    /\ sessionCache = [u \in UserKeys |-> 0]
    /\ sessions = <<>>
    /\ timers = {}
    /\ minted = 0
    /\ req = [r \in Requests |-> IdleRequest]
    /\ lastResponse = NoResponse
    /\ probe = NoProbe

(***************************************************************************)
(* chatCompletion, lines 185-285: a completion request arrives.            *)
(***************************************************************************)
\* A validation that does not look at the last message's role.
ValidMessagesAnyRole(messages) ==
    /\ messages.kind = "list"
    /\ Len(messages.items) > 0

\* Line 190: the body of the 400 response.
InvalidRequestError ==
    "'messages' list cannot be empty, and the last message must be from user role."

\* Line 189.
ValidMessages(messages) ==
    /\ messages.kind = "list"
    /\ Len(messages.items) > 0
    /\ messages.items[Len(messages.items)].role = "user"

\* Line 187: model = settings.DEFAULT_MODEL when the body has none.
ModelOf(in) == IF in.model = NoModel THEN DEFAULT_MODEL ELSE in.model

\* The slot of the next request that opens a stream.
NextSlot == CHOOSE r \in Requests :
                /\ req[r].pc = "idle"
                /\ \A q \in Requests : q < r => req[q].pc # "idle"

HasSlot == \E r \in Requests : req[r].pc = "idle"

chatCompletion(in) ==
    IF ~ValidMessages(in.messages)
    THEN /\ lastResponse' = [status |-> 400, body |-> InvalidRequestError,
                              messages |-> in.messages]
         /\ UNCHANGED <<noncePromise, nonce, fetches, sessionCache, sessions,
                        timers, minted, req, probe>>
    ELSE /\ HasSlot
         /\ LET r == NextSlot
                currentUserMessage == in.messages.items[Len(in.messages.items)]
                stateful == in.user # NoUser
                hit == stateful /\ CacheHit(in.user)
                create == stateful /\ ~hit
                \* lines 124-126 and 206-208: a new conversation id
                newId == minted + 1
                ref == IF hit THEN sessionCache[in.user]
                       ELSE IF create THEN Len(sessions) + 1 ELSE 0
                sessions1 == IF create
                             THEN Append(sessions, NewSession(in.user, newId))
                             ELSE sessions
                q0 == [IdleRequest EXCEPT
                         !.authorization = in.authorization,
                         !.user = in.user,
                         !.model = ModelOf(in),
                         !.msg = currentUserMessage,
                         !.sessionRef = ref,
                         !.prompt =
                            IF stateful
                            THEN buildContextualPrompt(sessions1[ref].messages,
                                                       currentUserMessage.content)
                            ELSE currentUserMessage.content,
                         !.kimiSessionId =
                            IF stateful THEN sessions1[ref].kimi_session_id
                            ELSE newId]
                st == makeRequest([np |-> noncePromise, nonce |-> nonce,
                                   fetches |-> fetches,
                                   req |-> [req EXCEPT ![r] = q0]],
                                  r, FALSE)
            IN  /\ sessions' = sessions1
                /\ sessionCache' = IF create
                                   THEN [sessionCache EXCEPT ![in.user] = ref]
                                   ELSE sessionCache
                /\ timers' = IF create THEN timers \cup {NewTimer(in.user)}
                             ELSE IF hit THEN TimersOnHit(in.user)
                             ELSE timers
                /\ minted' = IF hit THEN minted ELSE newId
                /\ noncePromise' = st.np
                /\ nonce' = st.nonce
                /\ fetches' = st.fetches
                /\ req' = st.req
                /\ UNCHANGED <<lastResponse, probe>>

ServeStateless == \E in \in StatelessInputs : chatCompletion(in)

ServeStateful == \E in \in StatefulInputs : chatCompletion(in)

ServeMultiUser == \E in \in MultiUserInputs : chatCompletion(in)

ServeValidated == \E in \in ValidationInputs : chatCompletion(in)

(***************************************************************************)
(* The Deno.serve handler, lines 295-328: the security check, then the     *)
(* routing.                                                                *)
(***************************************************************************)
\* String.prototype.toLowerCase, on the letters the headers are made of.
LowerChar(c) ==
    CASE c = "B" -> "b" [] c = "E" -> "e" [] c = "A" -> "a"
      [] c = "R" -> "r" [] c = "S" -> "s" [] c = "K" -> "k"
      [] OTHER -> c

toLowerCase(s) == [i \in 1..Len(s) |-> LowerChar(s[i])]

startsWith(s, prefix) ==
    Len(s) >= Len(prefix) /\ SubSeq(s, 1, Len(prefix)) = prefix

\* s.substring(start), for start within s.
substring(s, start) == SubSeq(s, start + 1, Len(s))

\* Line 300: whether the security check is made at all.
AuthRequired == API_MASTER_KEY # <<>> /\ API_MASTER_KEY # <<"1">>

\* A check that takes any header for a Bearer header.
AnyHeader(authHeader) == authHeader.present

\* Line 302: the header is there, not empty, and starts with "bearer ".
HasBearer(authHeader) ==
    /\ authHeader.present
    /\ authHeader.value # <<>>
    /\ startsWith(toLowerCase(authHeader.value),
                  <<"b", "e", "a", "r", "e", "r", " ">>)

\* Lines 305-306.
TokenMatches(authHeader) == substring(authHeader.value, 7) = API_MASTER_KEY

\* A response that is not a stream, to request in.
Respond(in, status, body) ==
    /\ lastResponse' = [status |-> status, body |-> body,
                        messages |-> in.messages,
                        authorization |-> in.authorization,
                        path |-> in.path, method |-> in.method]
    /\ UNCHANGED <<noncePromise, nonce, fetches, sessionCache, sessions,
                   timers, minted, req, probe>>

Handle(in) ==
    IF AuthRequired /\ ~HasBearer(in.authorization)
    THEN Respond(in, 401, "Bearer Token authentication required.")
    ELSE IF AuthRequired /\ ~TokenMatches(in.authorization)
    THEN Respond(in, 403, "Invalid API Key.")
    ELSE IF in.path = "/v1/chat/completions" /\ in.method = "POST"
    THEN chatCompletion(in)
    ELSE IF in.path = "/v1/models" /\ in.method = "GET"
    THEN Respond(in, 200, "models")
    ELSE IF in.path = "/" /\ in.method = "GET"
    THEN Respond(in, 200, "welcome")
    ELSE Respond(in, 404, "Not Found")

Serve == \E in \in ServeInputs : Handle(in)

(***************************************************************************)
(* A token page fetch completes (fetchNonce returns or throws), the        *)
(* handlers of getNonce run (lines 108-114), and then the requests that    *)
(* await the promise resume.                                               *)
(***************************************************************************)
FetchSettles(f, outcome) ==
    /\ fetches[f].status = "pending"
    /\ LET ok == outcome = "nonce"
           s0 == [np |-> IF ok THEN noncePromise
                         ELSE PromiseAfterFailure(noncePromise, f),
                  nonce |-> IF ok THEN f ELSE nonce,
                  fetches |-> [fetches EXCEPT
                                 ![f].status = IF ok THEN "ok" ELSE "failed",
                                 ![f].waiters = <<>>],
                  req |-> req]
           st == Drain(fetches[f].waiters, s0, ok)
       IN  /\ noncePromise' = st.np
           /\ nonce' = st.nonce
           /\ fetches' = st.fetches
           /\ req' = st.req
    /\ UNCHANGED <<sessionCache, sessions, timers, minted, lastResponse,
                   probe>>

FetchReturns ==
    \E f \in 1..Len(fetches) : \E o \in FetchOutcomes : FetchSettles(f, o)

(***************************************************************************)
(* An upstream POST completes (lines 231-237), and on success the turn is  *)
(* appended and the first chunk is written (lines 258-268).                *)
(***************************************************************************)
\* A decoding that takes data for the message when data is a string.
TextOfData(outcome) == outcome.text

\* Line 237: responseData.data?.message || "".
ResponseText(outcome) ==
    IF outcome.kind = "message" THEN outcome.text ELSE <<>>

PostSucceeded(outcome) == outcome.kind \in {"message"} \cup NoMessageKinds

\* An end of stream without the stop chunk.
FinishWithoutStop(q, r) ==
    [q EXCEPT !.pc = "done", !.out = Append(@, DONE_CHUNK), !.closed = TRUE]

\* Lines 271-274.
Finish(q, r) ==
    [q EXCEPT !.pc = "done",
              !.out = @ \o <<createChatCompletionChunk(RequestId(r), q.model,
                                                       "", "stop"),
                             DONE_CHUNK>>,
              !.closed = TRUE]

\* An emitter that writes the first character again and again.
EmitFirstChar(q, r) ==
    [q EXCEPT !.pc = "streaming",
              !.idx = @ + 1,
              !.out = Append(@, createChatCompletionChunk(
                                    RequestId(r), q.model, q.text[1],
                                    NullFinish))]

\* Lines 265-268: the next character is written, and the loop sleeps.
EmitChar(q, r) ==
    [q EXCEPT !.pc = "streaming",
              !.idx = @ + 1,
              !.out = Append(@, createChatCompletionChunk(
                                    RequestId(r), q.model, q.text[q.idx + 1],
                                    NullFinish))]

\* The loop of lines 265-269 at its head.
StreamNext(q, r) == IF q.idx < Len(q.text) THEN EmitChar(q, r) ELSE Finish(q, r)

\* A turn whose push has not happened when the stream starts.
AfterTurnDeferred(q, text) == sessions

\* A push that goes to every session object there is.
AfterTurnAnywhere(q, text) ==
    [s \in 1..Len(sessions) |->
        [sessions[s] EXCEPT !.messages = @ \o <<q.msg, Msg("assistant", text)>>]]

\* A push that goes to the session the cache holds for the user key, if any.
AfterTurnToLive(q, text) ==
    LET target == IF q.user # NoUser /\ sessionCache[q.user] # 0
                  THEN sessionCache[q.user] ELSE q.sessionRef
    IN  [s \in 1..Len(sessions) |->
            [sessions[s] EXCEPT
                !.messages = IF s = target
                             THEN @ \o <<q.msg, Msg("assistant", text)>>
                             ELSE @]]

\* A push that forgets the user's turn.
PushAnswerOnly(messages, userMsg, text) ==
    Append(messages, Msg("assistant", text))

\* A push that puts the turn in front of the history.
PushTurnInFront(messages, userMsg, text) ==
    <<userMsg, Msg("assistant", text)>> \o messages

\* Lines 258-262: the history after the push of the turn.
PushTurn(messages, userMsg, text) ==
    messages \o <<userMsg, Msg("assistant", text)>>

\* The session objects after request q's turn succeeded with text: the push
\* goes to the object q holds; the turn is counted for the entry of q's key.
AfterTurn(q, text) ==
    [s \in 1..Len(sessions) |->
        [sessions[s] EXCEPT
            !.messages = IF s = q.sessionRef THEN PushTurn(@, q.msg, text)
                         ELSE @,
            !.turns = IF q.user # NoUser /\ s = sessionCache[q.user]
                      THEN @ + 1 ELSE @]]

\* A terminal failure that records the turn all the same, with no answer.
PushOnFailure(q) == AfterTurn(q, <<>>)

\* Lines 250-256: makeRequest returned null, and the handler returns before
\* the push of lines 258-262.
SessionsAfterFailure(q) == sessions

PostSettles(r, outcome) ==
    /\ req[r].pc = "awaitPost"
    /\ IF PostSucceeded(outcome)
       THEN LET q == [req[r] EXCEPT !.text = ResponseText(outcome),
                                    !.succeeded = TRUE]
            IN  /\ sessions' = AfterTurn(q, q.text)
                /\ req' = [req EXCEPT ![r] = StreamNext(q, r)]
                /\ UNCHANGED <<noncePromise, nonce, fetches>>
       ELSE LET st == Catch([np |-> noncePromise, nonce |-> nonce,
                             fetches |-> fetches, req |-> req], r, "post")
            IN  /\ noncePromise' = st.np
                /\ nonce' = st.nonce
                /\ fetches' = st.fetches
                /\ req' = st.req
                /\ sessions' = IF st.req[r].pc = "done"
                               THEN SessionsAfterFailure(req[r])
                               ELSE sessions
    /\ UNCHANGED <<sessionCache, timers, minted, lastResponse, probe>>

PostReturns == \E r \in Requests : \E o \in PostOutcomes : PostSettles(r, o)

(***************************************************************************)
(* The 20 ms delay of line 268 ends: the loop goes on.                     *)
(***************************************************************************)
StreamStep(r) ==
    /\ req[r].pc = "streaming"
    /\ req' = [req EXCEPT ![r] = StreamNext(req[r], r)]
    /\ UNCHANGED <<noncePromise, nonce, fetches, sessionCache, sessions,
                   timers, minted, lastResponse, probe>>

DelayEnds == \E r \in Requests : StreamStep(r)

(***************************************************************************)
(* An expiry timer fires (lines 133-136), and time passes.  A timer fires  *)
(* in the tick it is due in: time does not pass a due timer.               *)
(***************************************************************************)
TimerFires(t) ==
    /\ t \in timers
    /\ t.left = 0
    /\ sessionCache' = [sessionCache EXCEPT ![t.key] = 0]
    /\ timers' = timers \ {t}
    /\ UNCHANGED <<noncePromise, nonce, fetches, sessions, minted, req,
                   lastResponse, probe>>

Expire == \E t \in timers : TimerFires(t)

Live(s) == sessionCache[sessions[s].key] = s

Tick ==
    /\ timers # {}
    /\ \A t \in timers : t.left > 0
    /\ timers' = {[t EXCEPT !.left = @ - 1] : t \in timers}
    /\ sessions' = [s \in 1..Len(sessions) |->
                      IF Live(s) THEN [sessions[s] EXCEPT !.age = @ + 1]
                      ELSE sessions[s]]
    /\ UNCHANGED <<noncePromise, nonce, fetches, sessionCache, minted, req,
                   lastResponse, probe>>

(***************************************************************************)
(* Spec: requests without a user key, with any messages field and model,   *)
(* over a span shorter than the session lifetime.  SessionSpec: requests   *)
(* of one user key with valid bodies, the passing of time and the timers.   *)
(***************************************************************************)
Next == ServeStateless \/ FetchReturns \/ PostReturns \/ DelayEnds

Spec == Init /\ [][Next]_vars

SessionNext ==
    ServeStateful \/ FetchReturns \/ PostReturns \/ DelayEnds \/ Expire \/ Tick

SessionSpec == Init /\ [][SessionNext]_vars

\* ValidationSpec: a client with a user key whose requests may fail the
\* validation.
ValidationNext ==
    ServeValidated \/ FetchReturns \/ PostReturns \/ DelayEnds \/ Expire \/ Tick

ValidationSpec == Init /\ [][ValidationNext]_vars

\* AuthSpec: requests of clients with and without the key, on every route.
AuthNext == Serve \/ FetchReturns \/ PostReturns \/ DelayEnds

AuthSpec == Init /\ [][AuthNext]_vars

\* PromptSpec: buildContextualPrompt on its own, on every history and new
\* message of the bounded sets.
PromptInit ==
    /\ Init!1 /\ Init!2 /\ Init!3 /\ Init!4 /\ Init!5 /\ Init!6 /\ Init!7
    /\ Init!8 /\ Init!9
    /\ probe \in [history : Histories, newMessage : NewMessages,
                   prompt : {<<>>}, compiled : {FALSE}]

Compile ==
    /\ probe' = [probe EXCEPT
                    !.prompt = buildContextualPrompt(probe.history,
                                                     probe.newMessage),
                    !.compiled = TRUE]
    /\ UNCHANGED <<noncePromise, nonce, fetches, sessionCache, sessions,
                   timers, minted, req, lastResponse>>

PromptNext == Compile

PromptSpec == PromptInit /\ [][PromptNext]_vars

\* MultiUserSpec: requests without a user key and of two user keys, side by
\* side, with the passing of time and the timers.
MultiUserNext ==
    ServeMultiUser \/ FetchReturns \/ PostReturns \/ DelayEnds \/ Expire \/ Tick

MultiUserSpec == Init /\ [][MultiUserNext]_vars

\* Every network call returns or fails in the end, and every delay ends.
Fairness ==
    /\ WF_vars(FetchReturns)
    /\ WF_vars(PostReturns)
    /\ WF_vars(DelayEnds)

LiveSpec == Spec /\ Fairness

(***************************************************************************)
(* Observations used by the properties.                                    *)
(***************************************************************************)
Fetches == 1..Len(fetches)
InFlight == {f \in Fetches : fetches[f].status = "pending"}
Forced == {f \in Fetches : fetches[f].forced}
Entered == {r \in Requests : req[r].pc # "idle"}
Last(seq) == seq[Len(seq)]

\* The stream of a successful turn with response text s.
SuccessStream(r, model, s) ==
    [i \in 1..Len(s) |->
        createChatCompletionChunk(RequestId(r), model, s[i], NullFinish)]
    \o <<createChatCompletionChunk(RequestId(r), model, "", "stop"),
         DONE_CHUNK>>

IsPrefix(a, b) == Len(a) <= Len(b) /\ a = SubSeq(b, 1, Len(a))

(***************************************************************************)
(* C1.  Single-flight token acquisition: a getNonce(false) issued while    *)
(* the nonce promise is set (its fetch in flight or succeeded) starts no   *)
(* page fetch and attaches the caller to that fetch, and the caller gets   *)
(* that fetch's result: its nonce goes into the caller's first POST, or    *)
(* its failure into the caller's catch block.                              *)
(***************************************************************************)
\* The promise held is never one that failed.
PromiseUsable ==
    noncePromise # 0 => fetches[noncePromise].status \in {"pending", "ok"}

\* What the caller of the first (non-forced) acquire got is what its fetch gave.
FirstAcquireResult(r) ==
    LET q == req[r]
        f == q.acquired[1]
    IN  /\ (q.pc = "awaitNonce" /\ ~q.isRetry) =>
              /\ q.awaiting = f
              /\ fetches[f].status = "pending"
              /\ Cardinality({i \in 1..Len(fetches[f].waiters) :
                                 fetches[f].waiters[i] = r}) = 1
        /\ fetches[f].status = "ok" =>
              /\ q.errors = <<>> \/ q.errors[1] # "nonce"
              /\ q.posts # <<>> => q.posts[1].nonce = f
        /\ fetches[f].status = "failed" =>
              /\ q.errors # <<>> /\ q.errors[1] = "nonce"
              /\ \A i \in 1..Len(q.posts) : q.posts[i].nonce # f

\* A step in which request r arrives while the promise is set.
AttachStep(r) ==
    /\ req[r].pc = "idle"
    /\ req'[r].pc # "idle"
    /\ noncePromise # 0

C1_SingleFlight ==
    /\ [](PromiseUsable /\ \A r \in Entered : FirstAcquireResult(r))
    /\ [][\A r \in Requests : AttachStep(r) =>
             /\ req'[r].acquired[1] = noncePromise
             /\ \A f \in (Len(fetches) + 1)..Len(fetches') :
                    fetches'[f].forced]_vars

\* Two requests got the nonce of the one startup fetch, and no other fetch
\* was ever started.
C1_Witness ==
    /\ Len(fetches) = 1
    /\ \A r \in {1, 2} :
          /\ req[r].acquired = <<1>>
          /\ req[r].posts # <<>>
          /\ req[r].posts[1].nonce = 1

(***************************************************************************)
(* C2.  As claimed: in every reachable state at most one token page fetch  *)
(* is in flight.                                                           *)
(***************************************************************************)
C2_AtMostOneInFlight == Cardinality(InFlight) <= 1

(***************************************************************************)
(* C2, amended.  Every forced acquire starts a page fetch of its own, and  *)
(* the fetches it supersedes stay in flight: the page fetches in flight    *)
(* are at most one more than the forced acquires made so far, and at most  *)
(* one while no forced acquire was made.                                   *)
(***************************************************************************)
C2_InFlightBound == Cardinality(InFlight) <= 1 + Cardinality(Forced)

\* Two forced fetches in flight at once, each started by a retry.
C2_Witness ==
    \E f, g \in InFlight :
        /\ f # g
        /\ fetches[f].forced /\ fetches[g].forced
        /\ fetches[f].by # fetches[g].by

(***************************************************************************)
(* C3.  Bounded retry: a request makes one attempt, after the failure of   *)
(* the first attempt exactly one more, with a forced acquire of its own,   *)
(* and after the failure of that one none: the turn ends.  No request      *)
(* makes more than two upstream POSTs.                                     *)
(***************************************************************************)
BoundedRetry(r) ==
    LET q == req[r]
    IN  /\ q.attempts = (IF q.errors = <<>> THEN 1 ELSE 2)
        /\ Len(q.errors) <= 2
        /\ Len(q.acquired) = q.attempts
        /\ q.isRetry = (q.attempts = 2)
        /\ q.attempts = 2 =>
              /\ fetches[q.acquired[2]].forced
              /\ fetches[q.acquired[2]].by = r
              /\ q.acquired[2] > q.acquired[1]
        /\ Len(q.errors) = 2 => q.pc = "done" /\ ~q.succeeded
        /\ Len(q.posts) <= q.attempts

C3_BoundedRetry == \A r \in Entered : BoundedRetry(r)

\* A request whose two attempts both reached the upstream and failed there.
C3_Witness ==
    \E r \in Entered :
        /\ req[r].errors = <<"post", "post">>
        /\ Len(req[r].posts) = 2
        /\ req[r].pc = "done"

(***************************************************************************)
(* C4.  As claimed: when both attempts fail, the stream is one chunk with  *)
(* the error text, then a stop chunk, then [DONE], and is closed.          *)
(***************************************************************************)
BothFailed(r) == req[r].pc = "done" /\ Len(req[r].errors) = 2

RetrySucceeded(r) == req[r].errors = <<"post">> /\ req[r].succeeded

FirstTrySucceeded(r) == req[r].errors = <<>> /\ req[r].succeeded

StreamOf(r) == SuccessStream(r, req[r].model, req[r].text)

C5_RetryStream ==
    \A r \in Entered :
        /\ RetrySucceeded(r) =>
              /\ Len(req[r].posts) = 2
              /\ IsPrefix(req[r].out, StreamOf(r))
              /\ Len(req[r].out) >= 1
              /\ req[r].pc = "done" => req[r].out = StreamOf(r) /\ req[r].closed
        /\ (FirstTrySucceeded(r) /\ req[r].pc = "done") =>
              req[r].out = StreamOf(r)

\* A two-character response streamed in full after a retry.
C5_Witness ==
    \E r \in Entered :
        /\ RetrySucceeded(r)
        /\ req[r].pc = "done"
        /\ Len(req[r].text) = 2
        /\ Len(req[r].out) = 4

(***************************************************************************)
(* C6.  Every request that passes validation has its stream closed in the  *)
(* end, with [DONE] as its last record, whatever the token fetches and the *)
(* upstream calls return, as long as they return.                          *)
(***************************************************************************)
Closed(r) ==
    /\ req[r].closed
    /\ req[r].out # <<>>
    /\ Last(req[r].out) = DONE_CHUNK

C6_StreamCloses == \A r \in Requests : (req[r].pc # "idle") ~> Closed(r)

\* A stream closed after a failed token fetch and then a failed upstream call.
C6_Witness ==
    \E r \in Entered : Closed(r) /\ req[r].errors = <<"nonce", "post">>

(***************************************************************************)
(* C7.  As claimed: a live session's history has length 2N after N         *)
(* successful turns for its user key.                                      *)
(***************************************************************************)
Sessions == 1..Len(sessions)
Holders(s) == {r \in Entered : req[r].sessionRef = s}
TurnsOf(s) == {r \in Holders(s) : req[r].succeeded}

C7_TwoPerTurnOfKey ==
    \A s \in Sessions : Live(s) =>
        Len(sessions[s].messages) = 2 * sessions[s].turns

(***************************************************************************)
(* C7, amended.  A session's history has length 2N after N successful      *)
(* turns of the requests that got that session from getOrCreateSession,    *)
(* and holds the user turn and the assistant turn of each, in the order    *)
(* the turns succeeded; it is never shortened or edited.  (The turn of a   *)
(* request that holds an evicted session goes to that session, not to the  *)
(* live one of its key.)                                                   *)
(***************************************************************************)
TwoPerTurn(s) ==
    LET h == sessions[s].messages
    IN  /\ Len(h) = 2 * Cardinality(TurnsOf(s))
        /\ \A i \in 1..Len(h) :
              h[i].role = (IF i % 2 = 1 THEN "user" ELSE "assistant")
        /\ \A r \in TurnsOf(s) :
              \E i \in 1..Len(h) :
                  /\ i % 2 = 1
                  /\ h[i] = req[r].msg
                  /\ h[i + 1] = Msg("assistant", req[r].text)

\* The turn of r succeeds in this step.
TurnSucceeds(r) == ~req[r].succeeded /\ req'[r].succeeded

AppendOnly(s) ==
    /\ IsPrefix(sessions[s].messages, sessions'[s].messages)
    /\ sessions'[s].messages # sessions[s].messages =>
          \E r \in Holders(s) :
              /\ TurnSucceeds(r)
              /\ sessions'[s].messages =
                    sessions[s].messages
                    \o <<req[r].msg, Msg("assistant", req'[r].text)>>

C7_TwoPerTurn ==
    /\ [](\A s \in Sessions : TwoPerTurn(s))
    /\ [][\A s \in Sessions : AppendOnly(s)]_vars

\* A live session with two successful turns in its history.
C7_Witness ==
    \E s \in Sessions :
        /\ Live(s)
        /\ Cardinality(TurnsOf(s)) = 2
        /\ Len(sessions[s].messages) = 4

(***************************************************************************)
(* C8.  Fixed expiry: a session is evicted when its age is the lifetime,   *)
(* whatever lookups and turns there were: a lookup of an existing entry    *)
(* leaves the timers and the sessions as they are, and once the entry is   *)
(* evicted, getOrCreateSession makes a new session with an empty history.  *)
(***************************************************************************)
TimersOf(userKey) == {t \in timers : t.key = userKey}

FixedExpiry(s) ==
    Live(s) =>
        /\ sessions[s].age <= SESSION_CACHE_TTL
        /\ TimersOf(sessions[s].key) =
              {[key |-> sessions[s].key,
                left |-> SESSION_CACHE_TTL - sessions[s].age]}

\* Request r arrives in this step, with a user key.
Arrives(r) ==
    req[r].pc = "idle" /\ req'[r].pc # "idle" /\ req'[r].user # NoUser

Lookup(r) ==
    LET k == req'[r].user
        s == req'[r].sessionRef
    IN  IF sessionCache[k] # 0
        THEN /\ s = sessionCache[k]
             /\ UNCHANGED <<sessionCache, sessions, timers>>
        ELSE /\ s = Len(sessions) + 1
             /\ sessionCache'[k] = s
             /\ sessions'[s].messages = <<>>
             /\ sessions'[s].age = 0
             /\ \A o \in Sessions : sessions[o].key = k =>
                    sessions[o].age = SESSION_CACHE_TTL

Evicted(s) == Live(s) /\ sessionCache'[sessions[s].key] # s

C8_FixedExpiry ==
    /\ [](\A s \in Sessions : FixedExpiry(s))
    /\ [][/\ \A r \in Requests : Arrives(r) => Lookup(r)
          /\ \A s \in Sessions :
                Evicted(s) => sessions[s].age = SESSION_CACHE_TTL]_vars

\* A session that a second request looked up, that took a turn, and that was
\* evicted at the end of its lifetime.
C8_Witness ==
    \E s \in Sessions :
        /\ ~Live(s)
        /\ sessions[s].age = SESSION_CACHE_TTL
        /\ Cardinality(Holders(s)) = 2
        /\ sessions[s].messages # <<>>

(***************************************************************************)
(* C9.  A request whose messages field is missing, not a list, empty, or   *)
(* ends with a message whose role is not "user" is answered 400, opens no  *)
(* stream, and starts no token fetch and no upstream POST.                 *)
(***************************************************************************)
\* The four shapes of the claim.
Malformed(messages) ==
    \/ messages.kind = "missing"
    \/ messages.kind = "notList"
    \/ messages.kind = "list" /\ messages.items = <<>>
    \/ messages.kind = "list" /\ messages.items # <<>>
                              /\ Last(messages.items).role # "user"

C9_Rejected ==
    /\ [](/\ lastResponse # NoResponse =>
                /\ lastResponse.status = 400
                /\ Malformed(lastResponse.messages)
          /\ \A r \in Entered : req[r].msg.role = "user")
    /\ [][lastResponse' # lastResponse =>
             UNCHANGED <<noncePromise, nonce, fetches, sessionCache, sessions,
                         timers, minted, req>>]_vars

\* A body whose last message is not the user's was answered 400 while a
\* request was waiting for the upstream.
C9_Witness ==
    /\ lastResponse.status = 400
    /\ lastResponse.messages.kind = "list"
    /\ Len(lastResponse.messages.items) = 2
    /\ \E r \in Entered : req[r].pc = "awaitPost"

(***************************************************************************)
(* C10.  As claimed: a request whose model is not in the known mapping     *)
(* causes no token page fetch and no upstream POST.                        *)
(***************************************************************************)
C10_NoNetworkCall ==
    \A r \in Entered : ~ModelSupported(req[r].model) =>
        /\ req[r].posts = <<>>
        /\ \A f \in Fetches : fetches[f].by # r

(***************************************************************************)
(* C11.  Stateless mode leaves the session store untouched: a request      *)
(* without a user key holds no session, sends the bare content of its last *)
(* message as the prompt under a conversation id that no session has, and  *)
(* no step it takes (arrival, token, upstream success or failure,          *)
(* streaming) changes the cache, a session object or a timer.              *)
(***************************************************************************)
Stateless(r) == req[r].user = NoUser

BarePrompt(r) ==
    /\ req[r].sessionRef = 0
    /\ req[r].prompt = req[r].msg.content
    /\ \A s \in Sessions : sessions[s].kimi_session_id # req[r].kimiSessionId
    /\ \A i \in 1..Len(req[r].posts) :
          req[r].posts[i].message = req[r].msg.content

\* Request r takes a step: it arrives, or goes on after an await.
Acts(r) == req'[r] # req[r]

C11_StatelessLeavesStore ==
    /\ [](\A r \in Entered : Stateless(r) => BarePrompt(r))
    /\ [][\A r \in Requests :
             (Acts(r) /\ req'[r].user = NoUser) =>
                 UNCHANGED <<sessionCache, sessions, timers>>]_vars

\* A stateless request was answered in full while a session with a turn in
\* its history was in the cache.
C11_Witness ==
    \E r \in Entered :
        /\ Stateless(r)
        /\ req[r].succeeded /\ req[r].pc = "done"
        /\ req[r].text # <<>>
        /\ \E s \in Sessions : Live(s) /\ sessions[s].messages # <<>>

(***************************************************************************)
(* C12.  Session history is mutated only after a successful upstream round *)
(* trip of the same request: a history changes only in the step in which   *)
(* the POST of a request that holds the session returns success, and the   *)
(* step in which a request fails for good (attempt and retry both failed)  *)
(* leaves every history as it was.                                         *)
(***************************************************************************)
HistoryOf(s) == sessions[s].messages

\* The upstream call of r returns success in this step.
RoundTripSucceeds(r) ==
    /\ req[r].pc = "awaitPost"
    /\ ~req[r].succeeded
    /\ req'[r].succeeded
    /\ req'[r].posts = req[r].posts

\* Request r fails for good in this step.
FailsForGood(r) ==
    /\ req[r].pc # "done"
    /\ req'[r].pc = "done"
    /\ ~req'[r].succeeded

C12_HistoryAfterSuccess ==
    /\ [](\A r \in Entered :
             (req[r].sessionRef # 0 /\ ~req[r].succeeded) =>
                 Len(HistoryOf(req[r].sessionRef)) =
                     2 * Cardinality(TurnsOf(req[r].sessionRef) \ {r}))
    /\ [][\A s \in Sessions :
             sessions'[s].messages # HistoryOf(s) =>
                 \E r \in Holders(s) : RoundTripSucceeds(r)]_vars
    /\ [][\A r \in Requests :
             FailsForGood(r) =>
                 \A s \in Sessions : sessions'[s].messages = HistoryOf(s)]_vars

\* A stateful request failed at the upstream twice, and the session it holds
\* has the one turn of the other request, which succeeded before.
C12_Witness ==
    \E r \in Entered :
        /\ req[r].sessionRef # 0
        /\ req[r].pc = "done" /\ ~req[r].succeeded
        /\ req[r].errors = <<"post", "post">>
        /\ Len(HistoryOf(req[r].sessionRef)) = 2

(***************************************************************************)
(* C13.  Sessions of different users are independent: a request of user    *)
(* key A holds the session made for A, its prompt is compiled from turns   *)
(* of A's requests only, and no step it takes changes the cache entry, the *)
(* timer or the history of another key; an entry is deleted only by the    *)
(* timer set for its own key.                                              *)
(***************************************************************************)
OwnSession(r) ==
    LET s == req[r].sessionRef
        h == HistoryOf(s)
    IN  /\ s # 0
        /\ sessions[s].key = req[r].user
        /\ \E n \in 0..Len(h) :
              req[r].prompt =
                  buildContextualPrompt(SubSeq(h, 1, n), req[r].msg.content)

\* Every user turn of a history is the message of a request of its key.
OwnTurns(s) ==
    \A i \in 1..Len(HistoryOf(s)) :
        HistoryOf(s)[i].role = "user" =>
            \E r \in Holders(s) :
                /\ req[r].user = sessions[s].key
                /\ req[r].msg = HistoryOf(s)[i]

\* The part of the store that belongs to key k is as it was.
KeyUntouched(k) ==
    /\ sessionCache'[k] = sessionCache[k]
    /\ TimersOf(k) = {t \in timers' : t.key = k}
    /\ \A s \in Sessions :
          sessions[s].key = k => sessions'[s].messages = HistoryOf(s)

C13_UsersIndependent ==
    /\ [](/\ \A r \in Entered : ~Stateless(r) => OwnSession(r)
          /\ \A s \in Sessions : OwnTurns(s))
    /\ [][\A r \in Requests :
             (Acts(r) /\ req'[r].user # NoUser) =>
                 \A k \in UserKeys \ {req'[r].user} : KeyUntouched(k)]_vars
    /\ [][\A k \in UserKeys :
             (sessionCache[k] # 0 /\ sessionCache'[k] # sessionCache[k]) =>
                 \E t \in timers \ timers' : t.key = k /\ t.left = 0]_vars

\* Two users each have a live session with their own turn in it.
C13_Witness ==
    \E s1, s2 \in Sessions :
        /\ Live(s1) /\ Live(s2)
        /\ sessions[s1].key = "u1" /\ sessions[s2].key = "u2"
        /\ Len(HistoryOf(s1)) = 2 /\ Len(HistoryOf(s2)) = 2
        /\ HistoryOf(s1)[1] # HistoryOf(s2)[1]

(***************************************************************************)
(* C14.  On a successful turn with response text s the stream is exactly   *)
(* |s| content chunks, the i-th with the i-th character of s and a null    *)
(* finish reason, then one chunk with empty content and finish reason      *)
(* "stop", then [DONE]; all chunks carry the request's id and model.  While *)
(* the response is being streamed, the records written so far are the      *)
(* first records of that stream.                                           *)
(***************************************************************************)
ContentChunk(c, r, char) ==
    /\ c.kind = "chunk"
    /\ c.id = RequestId(r)
    /\ c.model = req[r].model
    /\ c.content = char
    /\ c.finish_reason = NullFinish

StopChunk(c, r) ==
    /\ c.kind = "chunk"
    /\ c.id = RequestId(r)
    /\ c.model = req[r].model
    /\ c.content = ""
    /\ c.finish_reason = "stop"

ExactStream(r) ==
    LET out == req[r].out
        n == Len(req[r].text)
    IN  /\ \A i \in 1..Len(out) : i <= n => ContentChunk(out[i], r, req[r].text[i])
        /\ Len(out) <= n + 2
        /\ Len(out) > n => StopChunk(out[n + 1], r)
        /\ Len(out) # n + 1
        /\ Len(out) = n + 2 => out[n + 2] = DONE_CHUNK
        /\ (req[r].pc = "done") = (Len(out) = n + 2)
        /\ req[r].pc = "streaming" => Len(out) = req[r].idx /\ req[r].idx >= 1

C14_SuccessStream == \A r \in Entered : req[r].succeeded => ExactStream(r)

\* The response "xy" of a first attempt, streamed in full under the default
\* model.
C14_Witness ==
    \E r \in Entered :
        /\ FirstTrySucceeded(r)
        /\ req[r].pc = "done"
        /\ req[r].model = DEFAULT_MODEL
        /\ Len(req[r].out) = 4
        /\ req[r].out[1].content = "x"
        /\ req[r].out[2].content = "y"

(***************************************************************************)
(* C15.  As claimed: the prompt is the history turns in order, "User: c"   *)
(* for role user and "Model: c" for role assistant, one per line, followed *)
(* by "User: " and the new content.                                        *)
(***************************************************************************)
Chars(label) == label \o <<":", " ">>

RECURSIVE Rendered(_, _)
Rendered(history, newMessage) ==
    IF history = <<>> THEN Chars(<<"U", "s", "e", "r">>) \o newMessage
    ELSE (IF Head(history).role = "user"
          THEN Chars(<<"U", "s", "e", "r">>)
          ELSE Chars(<<"M", "o", "d", "e", "l">>))
         \o Head(history).content \o <<"\n">>
         \o Rendered(Tail(history), newMessage)

C15_RenderedAsIs ==
    probe.compiled => probe.prompt = Rendered(probe.history, probe.newMessage)

(***************************************************************************)
(* C15, amended.  The prompt is that rendering with the whitespace at its  *)
(* end stripped (it has none at its start); for the history                *)
(* [{user,"2+2?"},{assistant,"4"}] and the new message "3+3?" it is        *)
(* "User: 2+2?\nModel: 4\nUser: 3+3?"; and compiling the same arguments    *)
(* again gives the same prompt.                                            *)
(***************************************************************************)
Blank(c) == c \in {" ", "\t", "\n", "\r"}

\* p is s without the whitespace at its end.
StrippedAtEnd(p, s) ==
    /\ IsPrefix(p, s)
    /\ \A i \in (Len(p) + 1)..Len(s) : Blank(s[i])
    /\ p # <<>> => ~Blank(p[Len(p)])

ExampleHistory ==
    <<Msg("user", <<"2", "+", "2", "?">>), Msg("assistant", <<"4">>)>>

ExamplePrompt ==
    <<"U", "s", "e", "r", ":", " ", "2", "+", "2", "?", "\n",
      "M", "o", "d", "e", "l", ":", " ", "4", "\n",
      "U", "s", "e", "r", ":", " ", "3", "+", "3", "?">>

PromptAsRendered ==
    probe.compiled =>
        /\ StrippedAtEnd(probe.prompt,
                         Rendered(probe.history, probe.newMessage))
        /\ ~Blank(probe.prompt[1])
        /\ (probe.history = ExampleHistory
                /\ probe.newMessage = <<"3", "+", "3", "?">>) =>
               probe.prompt = ExamplePrompt

C15_PromptCompiled ==
    /\ []PromptAsRendered
    /\ [][probe.compiled => probe'.prompt = probe.prompt]_vars

\* The example of the claim has been compiled.
C15_Witness ==
    /\ probe.compiled
    /\ probe.history = ExampleHistory
    /\ probe.newMessage = <<"3", "+", "3", "?">>
    /\ Len(probe.prompt) = 30

(***************************************************************************)
(* C16.  With an API key configured, a request without a Bearer            *)
(* Authorization header is answered 401 and one with a wrong token 403, on *)
(* every route, and neither reaches the provider: the answer leaves the    *)
(* sessions, the timers, the token fetches and the requests as they were,  *)
(* and every request that reached chatCompletion, and every other answer,  *)
(* had the key.                                                            *)
(***************************************************************************)
\* The headers of HeaderInputs that are no Bearer header.
NotBearer ==
    {NoHeader, Header(<<>>),
     Header(<<"B", "a", "s", "i", "c", " ", "s", "k">>)}

\* The Bearer headers of HeaderInputs whose token is not the key.
WrongToken ==
    {Bearer(<<"x", "x">>), Bearer(<<"S", "K">>)}

Answered == lastResponse # NoResponse

AuthChecked ==
    /\ Answered =>
          /\ lastResponse.authorization \in NotBearer =>
                lastResponse.status = 401
          /\ lastResponse.authorization \in WrongToken =>
                lastResponse.status = 403
          /\ lastResponse.status \in {200, 404} =>
                lastResponse.authorization \notin NotBearer \cup WrongToken
    /\ \A r \in Entered :
          req[r].authorization \notin NotBearer \cup WrongToken

C16_AuthRequired ==
    /\ AuthRequired
    /\ []AuthChecked
    /\ [][(lastResponse' # lastResponse
             /\ lastResponse'.status \in {401, 403}) =>
                UNCHANGED <<noncePromise, nonce, fetches, sessionCache,
                            sessions, timers, minted, req>>]_vars

\* A completion request with a wrong token was answered 403 while a request
\* of a client with the key was waiting for the upstream, and no session
\* but that request's exists.
C16_Witness ==
    /\ Answered
    /\ lastResponse.status = 403
    /\ lastResponse.path = "/v1/chat/completions"
    /\ lastResponse.method = "POST"
    /\ Len(sessions) = 1
    /\ \E r \in Entered : req[r].pc = "awaitPost"
    /\ \E r \in Requests : req[r].pc = "idle"

(***************************************************************************)
(* C17.  A forced refresh always starts a new token page fetch and points  *)
(* the cache at it: the retry of a request awaits a fetch of its own that  *)
(* is started in the step in which its first attempt fails, the nonce of   *)
(* the retry's POST is that fetch's, never that of the fetch the first     *)
(* attempt acquired, and after a step that starts fetches the cache points *)
(* at the newest.                                                          *)
(***************************************************************************)
Retried(r) == req[r].attempts = 2

\* The retry of r has sent its POST.
RetryPosted(r) ==
    \/ Len(req[r].posts) = 2
    \/ Len(req[r].posts) = 1 /\ req[r].errors[1] = "nonce"

RetryNonce(r) ==
    LET f == req[r].acquired[2]
    IN  /\ fetches[f].forced
        /\ fetches[f].by = r
        /\ f # req[r].acquired[1]
        /\ req[r].pc = "awaitNonce" => req[r].awaiting = f
        /\ RetryPosted(r) =>
              /\ Last(req[r].posts).nonce = f
              /\ fetches[f].status = "ok"

\* The first attempt of r fails in this step.
FirstAttemptFails(r) == req[r].errors = <<>> /\ req'[r].errors # <<>>

C17_ForcedRefresh ==
    /\ [](\A r \in Entered : Retried(r) => RetryNonce(r))
    /\ [][\A r \in Requests :
             FirstAttemptFails(r) => req'[r].acquired[2] > Len(fetches)]_vars
    /\ [][Len(fetches') > Len(fetches) =>
             noncePromise' = Len(fetches')]_vars

\* A retry whose POST carried another nonce than the first attempt's did.
C17_Witness ==
    \E r \in Entered :
        /\ Len(req[r].posts) = 2
        /\ req[r].posts[1].nonce # req[r].posts[2].nonce
        /\ req[r].posts[2].nonce = req[r].acquired[2]
        /\ req[r].succeeded

(***************************************************************************)
(* C18.  No permanent poisoning: the cache never points at a fetch that    *)
(* failed; the step in which a fetch fails leaves the cache cleared, or    *)
(* pointing at a fetch started in that very step by a retry; and a request *)
(* that arrives while the cache is clear starts a fetch of its own, not    *)
(* forced, and waits for it.                                               *)
(***************************************************************************)
Failed(f) == fetches[f].status = "failed"

\* Fetch f fails in this step.
FetchFails(f) == fetches[f].status = "pending" /\ fetches'[f].status = "failed"

\* Request r arrives in this step.
Enters(r) == req[r].pc = "idle" /\ req'[r].pc # "idle"

FreshFetch(r) ==
    LET f == Len(fetches) + 1
    IN  /\ Len(fetches') = f
        /\ fetches'[f] = NewFetch(FALSE, r)
        /\ noncePromise' = f
        /\ req'[r].acquired = <<f>>
        /\ req'[r].pc = "awaitNonce"
        /\ req'[r].errors = <<>>

C18_NoPoisoning ==
    /\ [](\A f \in Fetches : Failed(f) => noncePromise # f)
    /\ [][\A f \in Fetches :
             FetchFails(f) =>
                 noncePromise' = 0 \/ noncePromise' > Len(fetches)]_vars
    /\ [][\A r \in Requests :
             (Enters(r) /\ noncePromise = 0) => FreshFetch(r)]_vars

\* The startup fetch failed before any request came; a request that came
\* later got its nonce from a second fetch, not forced, with no retry.
C18_Witness ==
    \E r \in Entered :
        /\ Failed(1)
        /\ req[r].acquired = <<2>>
        /\ ~fetches[2].forced
        /\ req[r].errors = <<>>
        /\ req[r].succeeded

(***************************************************************************)
(* C19.  As claimed: the failure of a fetch that a forced refresh has      *)
(* superseded leaves the cache pointing at the newer fetch.                *)
(***************************************************************************)
\* Fetch f is no longer the one the cache points at.
Superseded(f) == noncePromise # 0 /\ noncePromise # f

C19_StaleFailureKeepsCache ==
    [][\A f \in Fetches :
          (FetchFails(f) /\ Superseded(f)) => noncePromise' # 0]_vars

(***************************************************************************)
(* C20.  A caller attached to a fetch is not cancelled by a forced refresh *)
(* that supersedes the fetch: as long as the fetch is in flight the caller *)
(* stays attached to it, whatever the cache points at, and when the fetch  *)
(* returns, the caller goes on with its result: the POST with its nonce,   *)
(* or the catch block with its failure.                                    *)
(***************************************************************************)
Waiting(r) == req[r].pc = "awaitNonce"

Attached(r) ==
    LET f == req[r].awaiting
    IN  /\ f \in InFlight
        /\ Cardinality({i \in 1..Len(fetches[f].waiters) :
                           fetches[f].waiters[i] = r}) = 1

\* What r does in the step in which the fetch f it waits for returns.
GoesOn(r, f) ==
    /\ fetches'[f].status = "pending" => req'[r] = req[r]
    /\ (fetches'[f].status = "ok" /\ ModelSupported(req[r].model)) =>
          /\ req'[r].pc = "awaitPost"
          /\ req'[r].posts =
                Append(req[r].posts,
                       preparePayload(req[r].prompt, req[r].model,
                                      req[r].kimiSessionId, f))
          /\ req'[r].errors = req[r].errors
    /\ (fetches'[f].status = "ok" /\ ~ModelSupported(req[r].model)) =>
          /\ req'[r].posts = req[r].posts
          /\ req'[r].errors = Append(req[r].errors, "payload")
    /\ fetches'[f].status = "failed" =>
          /\ req'[r].posts = req[r].posts
          /\ req'[r].errors = Append(req[r].errors, "nonce")

C20_WaitersNotCancelled ==
    /\ [](\A r \in Entered : Waiting(r) => Attached(r))
    /\ [][\A r \in Requests :
             Waiting(r) => GoesOn(r, req[r].awaiting)]_vars

\* A request waits for a fetch that a forced refresh of another request has
\* superseded, and both fetches are in flight.
C20_Witness ==
    \E r \in Entered :
        /\ Waiting(r)
        /\ Superseded(req[r].awaiting)
        /\ noncePromise > req[r].awaiting
        /\ fetches[noncePromise].forced
        /\ fetches[noncePromise].by # r
        /\ noncePromise \in InFlight

(***************************************************************************)
(* C21.  Append after eviction is a no-op on the store: when the turn of a *)
(* request succeeds after the session it holds was evicted, the push goes  *)
(* to the evicted object; the cache and the timers stay as they are (the   *)
(* session is not re-inserted) and no other session object, in particular  *)
(* none created since for the same key, is altered.  A session created     *)
(* after the eviction starts with an empty history.                        *)
(***************************************************************************)
\* The turn of r succeeds in this step, and the session r holds is evicted.
LateTurn(r) ==
    /\ TurnSucceeds(r)
    /\ req[r].sessionRef # 0
    /\ ~Live(req[r].sessionRef)

LostUpdate(r) ==
    /\ sessionCache' = sessionCache
    /\ timers' = timers
    /\ Len(sessions') = Len(sessions)
    /\ \A s \in Sessions \ {req[r].sessionRef} :
          /\ sessions'[s].messages = HistoryOf(s)
          /\ sessions'[s].kimi_session_id = sessions[s].kimi_session_id
    /\ sessions'[req[r].sessionRef].messages =
          HistoryOf(req[r].sessionRef)
          \o <<req[r].msg, Msg("assistant", req'[r].text)>>

\* A session made in this step starts empty, whatever an evicted session of
\* its key holds.
StartsEmpty ==
    \A s \in (Len(sessions) + 1)..Len(sessions') :
        sessions'[s].messages = <<>>

C21_LateAppend ==
    /\ [][\A r \in Requests : LateTurn(r) => LostUpdate(r)]_vars
    /\ [][StartsEmpty]_vars
    /\ [](\A s \in Sessions :
             Live(s) => Len(HistoryOf(s)) = 2 * Cardinality(TurnsOf(s)))

\* An evicted session took the turn of a request after its eviction, while
\* the session made since for the same key is live and has an empty history.
C21_Witness ==
    \E s, n \in Sessions :
        /\ ~Live(s) /\ Live(n)
        /\ sessions[s].key = sessions[n].key
        /\ Len(HistoryOf(s)) = 2
        /\ sessions[s].turns = 0
        /\ sessions[n].turns = 1
        /\ HistoryOf(n) = <<>>

(***************************************************************************)
(* C22.  As claimed: every upstream call made for a user key between the   *)
(* creation of a session and its eviction carries that session's id.       *)
(***************************************************************************)
\* Request r sends an upstream POST in this step.
Posts(r) == Len(req'[r].posts) > Len(req[r].posts)

C22_SameIdWithinLife ==
    [][\A r \in Requests :
          (Posts(r) /\ req'[r].user # NoUser
             /\ sessionCache'[req'[r].user] # 0) =>
              Last(req'[r].posts).session_id =
                  sessions'[sessionCache'[req'[r].user]].kimi_session_id]_vars

(***************************************************************************)
(* C22, amended.  The conversation id of a session object never changes    *)
(* and is its own; every upstream call of a request carries the id of the  *)
(* session the request got from getOrCreateSession when it entered (which  *)
(* may be evicted by the time of the call); and getOrCreateSession on a    *)
(* mapped key returns the entry, makes no session, mints no id and sets no *)
(* timer.                                                                  *)
(***************************************************************************)
OwnConversationId(r) ==
    LET id == sessions[req[r].sessionRef].kimi_session_id
    IN  /\ req[r].kimiSessionId = id
        /\ \A i \in 1..Len(req[r].posts) : req[r].posts[i].session_id = id

DistinctIds ==
    \A s, n \in Sessions :
        s # n => sessions[s].kimi_session_id # sessions[n].kimi_session_id

\* Request r arrives in this step and finds an entry for its key.
Hits(r) == Arrives(r) /\ sessionCache[req'[r].user] # 0

C22_StableConversationId ==
    /\ [](/\ \A r \in Entered : ~Stateless(r) => OwnConversationId(r)
          /\ DistinctIds)
    /\ [][\A s \in Sessions :
             sessions'[s].kimi_session_id = sessions[s].kimi_session_id]_vars
    /\ [][\A r \in Requests :
             Hits(r) =>
                 /\ req'[r].sessionRef = sessionCache[req'[r].user]
                 /\ Len(sessions') = Len(sessions)
                 /\ minted' = minted
                 /\ timers' = timers
                 /\ sessionCache' = sessionCache]_vars

\* Two requests of one session have each sent a POST with the one id that
\* was ever minted.
C22_Witness ==
    \E s \in Sessions :
        /\ Cardinality(Holders(s)) = 2
        /\ minted = 1
        /\ Cardinality(timers) = 1
        /\ \A r \in Holders(s) :
              /\ req[r].posts # <<>>
              /\ req[r].posts[1].session_id = sessions[s].kimi_session_id

(***************************************************************************)
(* C23.  Under concurrent requests of one user key each successful request *)
(* appends its user turn and right after it its own assistant turn, in the *)
(* step in which its upstream call completes and at the end of the         *)
(* history: a history is a sequence of such pairs, alternating user and    *)
(* assistant, in the order the upstream calls completed, whatever the      *)
(* order the requests arrived in.                                          *)
(***************************************************************************)
Pair(r) == <<req[r].msg, Msg("assistant", req[r].text)>>

\* The history of s is made of the pairs of the requests whose turn succeeded.
PairsOnly(s) ==
    LET h == HistoryOf(s)
    IN  /\ Len(h) % 2 = 0
        /\ \A i \in 1..Len(h) :
              i % 2 = 1 =>
                  /\ h[i].role = "user"
                  /\ h[i + 1].role = "assistant"
                  /\ \E r \in TurnsOf(s) : SubSeq(h, i, i + 1) = Pair(r)

\* The pair of r goes to the end of the history when its call completes.
AppendsAtEnd(r) ==
    LET s == req[r].sessionRef
    IN  (TurnSucceeds(r) /\ s # 0) =>
            sessions'[s].messages =
                HistoryOf(s) \o <<req[r].msg, Msg("assistant", req'[r].text)>>

C23_PairsInCompletionOrder ==
    /\ [](\A s \in Sessions : PairsOnly(s))
    /\ [][\A r \in Requests : AppendsAtEnd(r)]_vars

\* The request that arrived second completed first: its pair comes first in
\* the history, before the pair of the request that arrived first.
C23_Witness ==
    \E s \in Sessions :
        /\ Holders(s) = {1, 2}
        /\ req[1].msg # req[2].msg
        /\ req[1].text # req[2].text
        /\ HistoryOf(s) = Pair(2) \o Pair(1)

(***************************************************************************)
(* C24.  The prompt of a stateful request is compiled once, when the       *)
(* request enters, from the history as it is then: it never changes        *)
(* afterwards, and every POST of the request, first attempt or retry,      *)
(* carries that prompt, the request's model and its conversation id (only  *)
(* the nonce may differ), whatever became of the history in between.       *)
(***************************************************************************)
\* The history getOrCreateSession gives to a request of userKey.
HistoryAtEntry(userKey) ==
    IF sessionCache[userKey] # 0 THEN HistoryOf(sessionCache[userKey])
    ELSE <<>>

CompiledAtEntry(r) ==
    Arrives(r) =>
        req'[r].prompt =
            buildContextualPrompt(HistoryAtEntry(req'[r].user),
                                  req'[r].msg.content)

CompiledOnce(r) ==
    req[r].pc # "idle" =>
        /\ req'[r].prompt = req[r].prompt
        /\ req'[r].model = req[r].model
        /\ req'[r].kimiSessionId = req[r].kimiSessionId

SamePayload(r) ==
    \A i \in 1..Len(req[r].posts) :
        /\ req[r].posts[i].message = req[r].prompt
        /\ req[r].posts[i].model = UpstreamModel(req[r].model)
        /\ req[r].posts[i].session_id = req[r].kimiSessionId

C24_PromptCompiledOnce ==
    /\ [](\A r \in Entered : SamePayload(r))
    /\ [][\A r \in Requests : CompiledAtEntry(r) /\ CompiledOnce(r)]_vars

\* Both requests of a session entered before either completed: each sent a
\* prompt without history, both turns are in the history now, and one of the
\* two sent the same prompt twice.
C24_Witness ==
    \E s \in Sessions :
        /\ Holders(s) = {1, 2}
        /\ Len(HistoryOf(s)) = 4
        /\ \A r \in Holders(s) :
              req[r].prompt = buildContextualPrompt(<<>>, req[r].msg.content)
        /\ \E r \in Holders(s) :
              /\ Len(req[r].posts) = 2
              /\ req[r].posts[1].message = req[r].posts[2].message
              /\ req[r].posts[1].nonce # req[r].posts[2].nonce

(***************************************************************************)
(* C25.  Every entry of the session cache has exactly one pending timer    *)
(* and a key without an entry has none; a timer is set only together with  *)
(* an entry, when none is pending for the key; the timer that fires        *)
(* deletes the entry of its key, whose session is then exactly one         *)
(* lifetime old, and no other entry: a session is never evicted by the     *)
(* timer of an earlier session, and every session gets its full lifetime.  *)
(***************************************************************************)
OneTimerPerEntry ==
    \A k \in UserKeys :
        Cardinality(TimersOf(k)) = (IF sessionCache[k] # 0 THEN 1 ELSE 0)

\* A session that is no longer in the cache lived a full lifetime.
FullLifetime == \A s \in Sessions : ~Live(s) => sessions[s].age = SESSION_CACHE_TTL

\* The timer of key k fires in this step.
Fires(k) == TimersOf(k) # {} /\ {t \in timers' : t.key = k} = {}

\* A timer for key k is set in this step.
Sets(k) == TimersOf(k) = {} /\ {t \in timers' : t.key = k} # {}

C25_OneTimerPerSession ==
    /\ [](OneTimerPerEntry /\ FullLifetime)
    /\ [][\A k \in UserKeys :
             Fires(k) =>
                 /\ sessionCache[k] # 0
                 /\ sessions[sessionCache[k]].age = SESSION_CACHE_TTL
                 /\ sessionCache'[k] = 0
                 /\ \A o \in UserKeys \ {k} :
                        sessionCache'[o] = sessionCache[o]]_vars
    /\ [][\A k \in UserKeys :
             Sets(k) =>
                 /\ sessionCache[k] = 0
                 /\ sessionCache'[k] = Len(sessions')
                 /\ Len(sessions') = Len(sessions) + 1
                 /\ {t \in timers' : t.key = k} = {NewTimer(k)}]_vars

\* Two sessions of one key, one after the other, each evicted at the end of
\* a full lifetime.
C25_Witness ==
    \E s, n \in Sessions :
        /\ s < n
        /\ sessions[s].key = sessions[n].key
        /\ ~Live(s) /\ ~Live(n)
        /\ sessions[s].age = SESSION_CACHE_TTL
        /\ sessions[n].age = SESSION_CACHE_TTL

(***************************************************************************)
(* C26.  A failed token fetch is handled like a failed upstream call: a    *)
(* request whose first attempt failed at the token fetch makes a second    *)
(* attempt with a forced fetch of its own, and a request whose token fetch *)
(* failed in both attempts ends with the error chunk and [DONE], closed,   *)
(* and has sent no POST.                                                   *)
(***************************************************************************)
NonceFailedFirst(r) == req[r].errors # <<>> /\ req[r].errors[1] = "nonce"

NonceFailedTwice(r) == req[r].errors = <<"nonce", "nonce">>

RetriesAfterNonceFailure(r) ==
    LET q == req[r]
    IN  /\ q.attempts = 2 /\ q.isRetry
        /\ Len(q.acquired) = 2
        /\ Failed(q.acquired[1])
        /\ fetches[q.acquired[2]].forced
        /\ fetches[q.acquired[2]].by = r
        /\ Len(q.posts) <= 1
        /\ \A i \in 1..Len(q.posts) : q.posts[i].nonce = q.acquired[2]

EndsWithoutPost(r) ==
    LET q == req[r]
    IN  /\ q.pc = "done" /\ ~q.succeeded
        /\ Failed(q.acquired[2])
        /\ q.posts = <<>>
        /\ q.out = <<createChatCompletionChunk(RequestId(r), q.model,
                                               ErrorText, "stop"),
                     DONE_CHUNK>>
        /\ q.closed

C26_NonceFailureRetried ==
    \A r \in Entered :
        /\ NonceFailedFirst(r) => RetriesAfterNonceFailure(r)
        /\ NonceFailedTwice(r) => EndsWithoutPost(r)

\* A request whose two token fetches failed, and one whose first token
\* fetch failed and whose retry reached the upstream.
C26_Witness ==
    /\ \E r \in Entered : NonceFailedTwice(r) /\ req[r].closed
    /\ \E r \in Entered :
          /\ NonceFailedFirst(r)
          /\ Len(req[r].posts) = 1
          /\ req[r].succeeded

(***************************************************************************)
(* C27.  As claimed: a token fetch is started at initialization, before    *)
(* any request, and a request that arrives while that fetch is in flight   *)
(* or after it succeeded acquires it in its first attempt and that attempt *)
(* starts no fetch.                                                        *)
(***************************************************************************)
\* The fetch the constructor started.
StartupFetch == 1

\* The fetches started in this step.
Started == (Len(fetches) + 1)..Len(fetches')

\* The first attempt of r, made in this step, acquires the startup fetch and
\* starts none: a fetch started in the step is the forced one of r's retry.
AttachesToStartup(r) ==
    /\ req'[r].acquired[1] = StartupFetch
    /\ \A f \in Started : fetches'[f].forced /\ fetches'[f].by = r
    /\ ModelSupported(req'[r].model) => Started = {}

PrefetchedAtStartup ==
    /\ Len(fetches) >= 1
    /\ fetches[StartupFetch].by = 0
    /\ ~fetches[StartupFetch].forced
    /\ \A f \in Fetches \ {StartupFetch} : fetches[f].by \in Entered
    /\ Entered = {} => Len(fetches) = 1

C27_AttachesAfterStartupSucceeded ==
    /\ []PrefetchedAtStartup
    /\ [][\A r \in Requests :
             (Enters(r) /\ fetches[StartupFetch].status \in {"pending", "ok"})
                 => AttachesToStartup(r)]_vars

(***************************************************************************)
(* C27, amended.  A token fetch is started at initialization, before any   *)
(* request, and every other fetch is started by a request.  While the      *)
(* startup fetch is in flight the cache holds it, and a request that       *)
(* arrives while the cache holds the startup fetch, in flight or           *)
(* succeeded, acquires it in its first attempt and that attempt starts no  *)
(* fetch.  A request that arrives after a forced refresh has replaced the  *)
(* startup fetch in the cache does not acquire the startup fetch.          *)
(***************************************************************************)
HeldWhileInFlight ==
    fetches[StartupFetch].status = "pending" =>
        noncePromise = StartupFetch /\ Len(fetches) = 1

C27_AttachesToCachedStartup ==
    /\ [](PrefetchedAtStartup /\ HeldWhileInFlight)
    /\ [][\A r \in Requests :
             (Enters(r) /\ noncePromise = StartupFetch)
                 => AttachesToStartup(r)]_vars
    /\ [][\A r \in Requests :
             (Enters(r) /\ noncePromise # StartupFetch)
                 => req'[r].acquired[1] # StartupFetch]_vars

\* Two requests wait for the startup fetch, which is in flight, and no other
\* fetch has been started.
C27_Witness ==
    /\ fetches[StartupFetch].status = "pending"
    /\ fetches[StartupFetch].waiters = <<1, 2>>
    /\ Len(fetches) = 1
    /\ \A r \in Requests : req[r].pc = "awaitNonce" /\ req[r].acquired = <<1>>

(***************************************************************************)
(* C28.  A request starts at most two token page fetches: at most one, not *)
(* forced, by its first attempt, and exactly one, forced, by its retry if  *)
(* it retries.  With k requests entered there are at most 1 + 2k fetches   *)
(* and at most 2k upstream POSTs.                                          *)
(***************************************************************************)
\* The fetches request r started.
FetchesBy(r) == {f \in Fetches : fetches[f].by = r}

RECURSIVE PostsUpTo(_)
PostsUpTo(r) == IF r = 0 THEN 0 ELSE Len(req[r].posts) + PostsUpTo(r - 1)

\* All upstream POSTs made so far.
TotalPosts == PostsUpTo(NumRequests)

AtMostTwoFetches(r) ==
    /\ Cardinality(FetchesBy(r) \ Forced) <= 1
    /\ Cardinality(FetchesBy(r) \cap Forced) = (IF Retried(r) THEN 1 ELSE 0)
    /\ Cardinality(FetchesBy(r)) <= 2
    /\ r \notin Entered => FetchesBy(r) = {}

C28_FetchBudget ==
    /\ \A r \in Requests : AtMostTwoFetches(r)
    /\ Len(fetches) <= 1 + 2 * Cardinality(Entered)
    /\ TotalPosts <= 2 * Cardinality(Entered)

\* The startup fetch and two fetches by each of two requests, and three
\* POSTs.
C28_Witness ==
    /\ Len(fetches) = 5
    /\ \A r \in Requests : Cardinality(FetchesBy(r)) = 2
    /\ TotalPosts = 3

(***************************************************************************)
(* C29.  As claimed: once a chunk of a successful stateful turn has been   *)
(* written, the history of the request's session holds the turn's pair,    *)
(* and a request of the same user that arrives while the response is       *)
(* streaming compiles its prompt from a history with that pair in it.      *)
(***************************************************************************)
ContainsPair(h, pair) ==
    \E i \in 1..(Len(h) - 1) : SubSeq(h, i, i + 1) = pair

\* A chunk of r's answer has been written.
ChunkWritten(r) == req[r].succeeded /\ req[r].out # <<>>

\* The first chunk of r's answer is written in this step.
FirstChunk(r) == req[r].out = <<>> /\ req'[r].out # <<>> /\ req'[r].succeeded

AppendedBeforeFirstChunk ==
    \A r \in Entered :
        (ChunkWritten(r) /\ ~Stateless(r)) =>
            ContainsPair(HistoryOf(req[r].sessionRef), Pair(r))

\* Request n arrives in this step while the answer of r, a request of the
\* same user, is streaming.
ArrivesDuringStream(n, r) ==
    /\ Arrives(n)
    /\ req[r].pc = "streaming"
    /\ req[r].user = req'[n].user

\* The prompt of n, compiled in this step, has r's turn in it.
SeesTurn(n, r) ==
    LET h == sessions'[req'[n].sessionRef].messages
    IN  /\ ContainsPair(h, Pair(r))
        /\ req'[n].prompt = buildContextualPrompt(h, req'[n].msg.content)

C29_VisibleDuringStream ==
    /\ []AppendedBeforeFirstChunk
    /\ [][\A n, r \in Requests : ArrivesDuringStream(n, r) => SeesTurn(n, r)]_vars

(***************************************************************************)
(* C29, amended.  Once a chunk of a successful stateful turn has been      *)
(* written, the history of the session object the request holds has the    *)
(* turn's pair in it: the pair is there in the step that writes the first  *)
(* chunk.  A request of the same user that arrives while the response is   *)
(* streaming compiles its prompt with that turn if the session is still in *)
(* the cache; if the session was evicted, the request gets another         *)
(* session, the one cached for the key then or a new one, and its prompt   *)
(* is compiled from that session's history, where r's push did not go.     *)
(***************************************************************************)
C29_AppendBeforeStream ==
    /\ []AppendedBeforeFirstChunk
    /\ [][\A r \in Requests :
             (FirstChunk(r) /\ ~Stateless(r)) =>
                 ContainsPair(sessions'[req[r].sessionRef].messages,
                              <<req[r].msg, Msg("assistant", req'[r].text)>>)]_vars
    /\ [][\A n, r \in Requests :
             ArrivesDuringStream(n, r) =>
                 IF Live(req[r].sessionRef)
                 THEN req'[n].sessionRef = req[r].sessionRef /\ SeesTurn(n, r)
                 ELSE /\ req'[n].sessionRef # req[r].sessionRef
                      /\ sessions'[req[r].sessionRef].messages =
                            HistoryOf(req[r].sessionRef)
                      /\ req'[n].prompt =
                            buildContextualPrompt(
                                HistoryAtEntry(req'[n].user),
                                req'[n].msg.content)]_vars

\* The answer of one request is streaming, and a second request of the user
\* has come in and compiled its prompt with the first one's turn.
C29_Witness ==
    \E r, n \in Entered :
        /\ req[r].pc = "streaming"
        /\ req[r].text # <<>>
        /\ req[n].sessionRef = req[r].sessionRef
        /\ req[n].sessionRef # 0
        /\ req[n].prompt = buildContextualPrompt(Pair(r), req[n].msg.content)

(***************************************************************************)
(* C30.  A request that is rejected with 400 leaves the session store as   *)
(* it is, user key or not: a session, a cache entry, a timer or a new      *)
(* conversation id comes only with a request that passed the validation.   *)
(* Such a request, when its key has no entry, creates the session and      *)
(* sets the timer in the step in which it arrives, before any POST; when   *)
(* both its attempts fail, its session has an empty history, and if the    *)
(* session is still cached its timer has run since the arrival.            *)
(***************************************************************************)
\* A 400 response is given in this step.
Rejects == lastResponse' # lastResponse /\ lastResponse'.status = 400

\* The session store gets something in this step.
StoreGrows ==
    \/ Len(sessions') > Len(sessions)
    \/ \E k \in UserKeys : sessionCache[k] = 0 /\ sessionCache'[k] # 0
    \/ \E t \in timers' : TimersOf(t.key) = {}
    \/ minted' # minted

\* Request r arrives for a key without an entry: the session is there, empty,
\* and its timer set, when the step is over, and r has sent one POST at most.
CreatedOnEntry(r) ==
    LET k == req'[r].user
        s == Len(sessions) + 1
    IN  /\ Len(sessions') = s
        /\ sessionCache'[k] = s
        /\ req'[r].sessionRef = s
        /\ sessions'[s] = NewSession(k, minted + 1)
        /\ timers' = timers \cup {NewTimer(k)}
        /\ req[r].posts = <<>>
        /\ \A i \in 1..Len(req'[r].posts) : req'[r].posts[i].session_id = minted + 1

\* r failed in both attempts and no other request uses its session.
FailedAlone(r) ==
    /\ BothFailed(r)
    /\ ~Stateless(r)
    /\ Holders(req[r].sessionRef) = {r}

EmptySessionLeft(r) ==
    LET s == req[r].sessionRef
    IN  /\ s \in Sessions
        /\ HistoryOf(s) = <<>>
        /\ Live(s) =>
              TimersOf(sessions[s].key) =
                  {[key |-> sessions[s].key,
                    left |-> SESSION_CACHE_TTL - sessions[s].age]}

C30_RejectedLeavesNoSession ==
    /\ [][Rejects =>
             UNCHANGED <<sessionCache, sessions, timers, minted, req,
                         noncePromise, nonce, fetches>>]_vars
    /\ [][StoreGrows =>
             /\ lastResponse' = lastResponse
             /\ \E r \in Requests : Arrives(r) /\ req'[r].msg.role = "user"]_vars
    /\ [][\A r \in Requests :
             (Arrives(r) /\ sessionCache[req'[r].user] = 0)
                 => CreatedOnEntry(r)]_vars
    /\ [](\A r \in Entered : FailedAlone(r) => EmptySessionLeft(r))

\* A request with a user key was rejected and one was let in; the one let in
\* failed twice, and its session, the only one there is, is still cached,
\* empty and one tick old.
C30_Witness ==
    \E r \in Entered :
        /\ lastResponse.status = 400
        /\ FailedAlone(r)
        /\ Len(sessions) = 1
        /\ Live(req[r].sessionRef)
        /\ HistoryOf(req[r].sessionRef) = <<>>
        /\ sessions[req[r].sessionRef].age = 1
        /\ Cardinality(Entered) = 1

(***************************************************************************)
(* C31.  An upstream response with success=true and an empty or absent     *)
(* data.message, data being a plain string included, is a successful turn  *)
(* with empty text: the step that handles it makes no retry and starts no  *)
(* fetch, appends the user turn and an empty assistant turn to the session *)
(* of a stateful request and leaves the sessions alone otherwise, and      *)
(* writes the stop chunk and [DONE] and nothing else, and closes.          *)
(***************************************************************************)
\* The responses with success=true and no text in data.message.
EmptyReplies ==
    {o \in PostOutcomes :
        \/ o.kind \in NoMessageKinds
        \/ o.kind = "message" /\ o.text = <<>>}

\* What the step that handles such a response for r does.
EmptyTurn(r) ==
    LET q == req[r]
        s == q.sessionRef
    IN  /\ req'[r].succeeded
        /\ req'[r].text = <<>>
        /\ req'[r].attempts = q.attempts
        /\ req'[r].errors = q.errors
        /\ req'[r].posts = q.posts
        /\ fetches' = fetches /\ noncePromise' = noncePromise
        /\ req'[r].out =
              <<createChatCompletionChunk(RequestId(r), q.model, "", "stop"),
                DONE_CHUNK>>
        /\ req'[r].closed /\ req'[r].pc = "done"
        /\ IF Stateless(r)
           THEN sessions' = sessions
           ELSE /\ sessions'[s].messages =
                      HistoryOf(s) \o <<q.msg, Msg("assistant", <<>>)>>
                /\ \A o \in Sessions \ {s} :
                      sessions'[o].messages = HistoryOf(o)

C31_EmptyMessageSucceeds ==
    /\ [](/\ \E o \in EmptyReplies : o.kind = "string_data" /\ o.text # <<>>
          /\ \A k \in NoMessageKinds : \E o \in EmptyReplies : o.kind = k
          /\ \A r \in Entered :
                (req[r].succeeded /\ req[r].text = <<>>) =>
                    /\ Len(req[r].out) = 2
                    /\ Last(req[r].out) = DONE_CHUNK)
    /\ [][\A r \in Requests : \A o \in EmptyReplies :
             PostSettles(r, o) => EmptyTurn(r)]_vars

\* A stateful request whose first POST came back without a message: its
\* stream is two chunks long, it made one attempt, and its session holds the
\* user's turn and an empty answer.
C31_Witness ==
    \E r \in Entered :
        /\ ~Stateless(r)
        /\ req[r].succeeded /\ req[r].text = <<>>
        /\ req[r].attempts = 1
        /\ Len(req[r].posts) = 1
        /\ req[r].closed
        /\ Len(req[r].out) = 2
        /\ HistoryOf(req[r].sessionRef) =
              <<req[r].msg, Msg("assistant", <<>>)>>

====
